---------------------------- MODULE Spec2Model ----------------------------
(***************************************************************************)
(* Model of the AI payment-screenshot parser (src/ai-service).             *)
(*                                                                         *)
(* One uvicorn worker runs every request coroutine on one event loop       *)
(* (app.py:174-175, 225-226).  A coroutine keeps the loop until it awaits  *)
(* something that suspends; parse_payment_screenshot awaits only           *)
(* parse_payment_image, which awaits only _generate_content_with_model,    *)
(* whose body is a blocking client call (google_ai_studio.py:195), so a    *)
(* request runs to completion once started.  `running` is the request that *)
(* holds the loop.  The calendar date (date.today()) is the one thing that *)
(* can change between two statements of a running request.                 *)
(*                                                                         *)
(* Confidence values are in tenths (0.7 is 7, 1.0 is 10).                  *)
(***************************************************************************)
EXTENDS Integers, Sequences, FiniteSets, TLC

\* ------------------------------------------------------------- bounds
NumRequests == 2      \* request slots that can be pending at once
MaxDay == 2           \* calendar dates are 1..MaxDay

Requests == 1..NumRequests
Days == 1..MaxDay

NoneVal == "None"     \* Python's None

\* ------------------------------------------------------------- config.py
\* DAILY_REQUEST_LIMIT is read from the environment (default "500"); the model
\* runs the service configured with a small limit.
DAILY_REQUEST_LIMIT == 2

MIN_CONFIDENCE_THRESHOLD == 7

ALLOWED_FREE_MODELS ==
    { "gemini-1.5-flash", "gemini-1.5-flash-latest", "gemini-1.5-pro",
      "gemini-1.5-pro-latest", "gemini-pro", "gemini-pro-vision",
      "gemini-1.5-flash-8b", "gemini-2.0-flash-exp", "gemini-2.0-flash",
      "gemini-2.0-flash-lite", "gemma-3-27b-it", "google/gemma-3-27b-it:free",
      "google/gemma-2-9b-it:free",
      "meta-llama/llama-3.2-11b-vision-instruct:free",
      "meta-llama/llama-3.2-90b-vision-instruct:free" }

\* Model ids a caller can name: whitelisted ones and two that are not.
ModelIds == ALLOWED_FREE_MODELS \cup {"gpt-4o", "gemini-ultra"}

\* Variant: a whitelist that lets every id through.
is_model_allowed_open(model_id) == TRUE

is_model_allowed(model_id) == model_id \in ALLOWED_FREE_MODELS

\* The lazy reset shared by get_request_count and increment_request_count:
\* the counter as it is after the `if _request_counter["date"] != today` block.
reset_if_new_day(counter, day) ==
    IF counter.date # day THEN [date |-> day, count |-> 0] ELSE counter

\* Variant: a read that resets the count whatever the stored date.
get_request_count_resetting(counter, day) ==
    [counter |-> [date |-> day, count |-> 0], value |-> 0]

\* get_request_count: [counter |-> the counter afterwards, value |-> the result]
get_request_count(counter, day) ==
    LET c == reset_if_new_day(counter, day)
    IN  [counter |-> c, value |-> c.count]

\* Variant: the increment without the reset on a new date.
increment_request_count_no_reset(counter, day) ==
    LET n == [counter EXCEPT !.count = counter.count + 1]
    IN  [counter |-> n, value |-> n.count]

\* increment_request_count: same shape.
increment_request_count(counter, day) ==
    LET c == reset_if_new_day(counter, day)
        n == [c EXCEPT !.count = c.count + 1]
    IN  [counter |-> n, value |-> n.count]

\* Variant: the comparison off by one (<= for <).
is_within_daily_limit_inclusive(counter, day) ==
    LET g == get_request_count(counter, day)
    IN  [counter |-> g.counter, value |-> g.value <= DAILY_REQUEST_LIMIT]

\* is_within_daily_limit: [counter |-> the counter afterwards, value |-> bool]
is_within_daily_limit(counter, day) ==
    LET g == get_request_count(counter, day)
    IN  [counter |-> g.counter, value |-> g.value < DAILY_REQUEST_LIMIT]

\* Variant: the three checks in the reverse order.
should_block_request_limit_first(model_id, enabled, counter, day) ==
    LET w == is_within_daily_limit(counter, day)
    IN  IF ~w.value
        THEN [block |-> TRUE, reason |-> "daily_limit_exceeded",
              counter |-> w.counter, observed |-> w.counter.count]
        ELSE IF ~is_model_allowed(model_id)
        THEN [block |-> TRUE, reason |-> "model_not_free",
              counter |-> w.counter, observed |-> w.counter.count]
        ELSE IF ~enabled
        THEN [block |-> TRUE, reason |-> "service_disabled",
              counter |-> w.counter, observed |-> w.counter.count]
        ELSE [block |-> FALSE, reason |-> NoneVal,
              counter |-> w.counter, observed |-> w.counter.count]

\* Variant: the request is counted before the limit verdict is returned.
should_block_request_counting(model_id, enabled, counter, day) ==
    IF ~enabled
    THEN [block |-> TRUE, reason |-> "service_disabled",
          counter |-> counter, observed |-> -1]
    ELSE IF ~is_model_allowed(model_id)
    THEN [block |-> TRUE, reason |-> "model_not_free",
          counter |-> counter, observed |-> -1]
    ELSE LET w == is_within_daily_limit(counter, day)
             n == increment_request_count(counter, day)
         IN  IF ~w.value
             THEN [block |-> TRUE, reason |-> "daily_limit_exceeded",
                   counter |-> n.counter, observed |-> w.counter.count]
             ELSE [block |-> FALSE, reason |-> NoneVal,
                   counter |-> w.counter, observed |-> w.counter.count]

\* should_block_request(model_id) with response_headers = None (the only way the
\* orchestrator calls it): the verdict, the counter as the call leaves it, and
\* the count it read (-1 when it returned before reading the counter).
should_block_request(model_id, enabled, counter, day) ==
    IF ~enabled
    THEN [block |-> TRUE, reason |-> "service_disabled",
          counter |-> counter, observed |-> -1]
    ELSE IF ~is_model_allowed(model_id)
    THEN [block |-> TRUE, reason |-> "model_not_free",
          counter |-> counter, observed |-> -1]
    ELSE LET w == is_within_daily_limit(counter, day)
         IN  IF ~w.value
             THEN [block |-> TRUE, reason |-> "daily_limit_exceeded",
                   counter |-> w.counter, observed |-> w.counter.count]
             ELSE [block |-> FALSE, reason |-> NoneVal,
                   counter |-> w.counter, observed |-> w.counter.count]


\* ------------------------------------------------------------- images
\* An image_base64 string is the sequence of its comma-separated pieces:
\* <<payload>> for bare base64, <<prefix, payload>> for a data URL.
Images == { <<"data:image/png;base64", "B64_PNG">>,
            <<"B64_BROKEN">>, <<"B64_HUGE">>, <<"B64_TINY">> }

\* Byte strings that probe ImageValidator.validate: the edges of the size
\* limits, files that fail two checks at once, bytes that are no image.
SampleBytes ==
    { "png_100x100", "png_4096x4096_10MiB", "png_99x100", "png_100x99",
      "png_4097x100", "png_100x4097", "png_99x4097", "bmp_50x50",
      "png_100x4096", "png_4096x100", "text_2KiB", "noise_11MiB",
      "png_10MiB_plus_1" }

\* base64.b64encode of a sample byte string.
b64encode(bytes) == "b64(" \o bytes \o ")"

\* base64.b64decode on each payload: the bytes, or a binascii.Error.
b64decode(payload) ==
    CASE payload = "B64_PNG"   -> [raised |-> FALSE, bytes |-> "png_800x1200"]
      [] payload = "B64_HUGE"  -> [raised |-> FALSE, bytes |-> "jpeg_11MiB"]
      [] payload = "B64_TINY"  -> [raised |-> FALSE, bytes |-> "png_99x800"]
      [] \E b \in SampleBytes : payload = b64encode(b) ->
            [raised |-> FALSE, bytes |-> CHOOSE b \in SampleBytes : payload = b64encode(b)]
      [] OTHER                 -> [raised |-> TRUE,  bytes |-> NoneVal]

\* len(image_bytes), and what PIL's Image.open finds in them.
ImageFacts(bytes) ==
    CASE bytes = "png_800x1200" ->
            [len |-> 1048576, opens |-> TRUE, format |-> "PNG", width |-> 800, height |-> 1200]
      [] bytes = "jpeg_11MiB" ->
            [len |-> 11534336, opens |-> TRUE, format |-> "JPEG", width |-> 4000, height |-> 3000]
      [] bytes = "png_100x100" ->
            [len |-> 4096, opens |-> TRUE, format |-> "PNG", width |-> 100, height |-> 100]
      [] bytes = "png_4096x4096_10MiB" ->
            [len |-> 10485760, opens |-> TRUE, format |-> "PNG", width |-> 4096, height |-> 4096]
      [] bytes = "png_99x100" ->
            [len |-> 4096, opens |-> TRUE, format |-> "PNG", width |-> 99, height |-> 100]
      [] bytes = "png_100x99" ->
            [len |-> 4096, opens |-> TRUE, format |-> "PNG", width |-> 100, height |-> 99]
      [] bytes = "png_4097x100" ->
            [len |-> 65536, opens |-> TRUE, format |-> "PNG", width |-> 4097, height |-> 100]
      [] bytes = "png_100x4097" ->
            [len |-> 65536, opens |-> TRUE, format |-> "PNG", width |-> 100, height |-> 4097]
      [] bytes = "png_99x4097" ->
            [len |-> 65536, opens |-> TRUE, format |-> "PNG", width |-> 99, height |-> 4097]
      [] bytes = "bmp_50x50" ->
            [len |-> 7680, opens |-> TRUE, format |-> "BMP", width |-> 50, height |-> 50]
      [] bytes = "png_100x4096" ->
            [len |-> 65536, opens |-> TRUE, format |-> "PNG", width |-> 100, height |-> 4096]
      [] bytes = "png_4096x100" ->
            [len |-> 65536, opens |-> TRUE, format |-> "PNG", width |-> 4096, height |-> 100]
      [] bytes = "text_2KiB" ->
            [len |-> 2048, opens |-> FALSE, format |-> NoneVal, width |-> 0, height |-> 0]
      [] bytes = "noise_11MiB" ->
            [len |-> 11534336, opens |-> FALSE, format |-> NoneVal, width |-> 0, height |-> 0]
      [] bytes = "png_10MiB_plus_1" ->
            [len |-> 10485761, opens |-> TRUE, format |-> "PNG", width |-> 800, height |-> 1200]
      [] OTHER ->
            [len |-> 20480, opens |-> TRUE, format |-> "PNG", width |-> 99, height |-> 800]

\* hashlib.sha256(image_bytes).hexdigest(): one digest per byte string.
sha256_hexdigest(bytes) == "sha256:" \o bytes

\* Variant: the text is decoded as it came, data-URL prefix included.
strip_data_url_keep(image_base64) == image_base64[1]

\* `if "," in image_base64: image_base64 = image_base64.split(",")[1]`
strip_data_url(image_base64) ==
    IF Len(image_base64) > 1 THEN image_base64[2] ELSE image_base64[1]

\* Variant: the digest taken of the base64 text instead of the decoded bytes.
generate_image_hash_of_text(image_base64) ==
    LET d == b64decode(strip_data_url(image_base64))
    IN  IF d.raised
        THEN [raised |-> TRUE, hash |-> NoneVal]
        ELSE [raised |-> FALSE, hash |-> sha256_hexdigest(strip_data_url(image_base64))]

\* generate_image_hash: the digest, or the exception b64decode raises.
generate_image_hash(image_base64) ==
    LET d == b64decode(strip_data_url(image_base64))
    IN  IF d.raised
        THEN [raised |-> TRUE, hash |-> NoneVal]
        ELSE [raised |-> FALSE, hash |-> sha256_hexdigest(d.bytes)]

SUPPORTED_FORMATS == {"JPEG", "PNG", "GIF", "WEBP"}
MIN_WIDTH == 100
MIN_HEIGHT == 100
MAX_WIDTH == 4096
MAX_HEIGHT == 4096
MAX_FILE_SIZE_MB == 10

\* `aspect_ratio > 3 or aspect_ratio < 0.3` (lines 80-81), in whole numbers.
unusual_aspect_ratio(width, height) ==
    width > 3 * height \/ 10 * width < 3 * height

\* Variant: the image opened before its byte size is looked at.
ImageValidator_validate_open_first(image_base64) ==
    LET d == b64decode(strip_data_url(image_base64))
        f == ImageFacts(d.bytes)
    IN  IF d.raised
        THEN [valid |-> FALSE, error |-> "Invalid base64 encoding", warned |-> FALSE]
        ELSE IF ~f.opens
        THEN [valid |-> FALSE, error |-> "Cannot open image", warned |-> FALSE]
        ELSE IF f.len > MAX_FILE_SIZE_MB * 1024 * 1024
        THEN [valid |-> FALSE, error |-> "Image too large (MB)", warned |-> FALSE]
        ELSE IF f.format \notin SUPPORTED_FORMATS
        THEN [valid |-> FALSE, error |-> "Unsupported format", warned |-> FALSE]
        ELSE IF f.width < MIN_WIDTH \/ f.height < MIN_HEIGHT
        THEN [valid |-> FALSE, error |-> "Image too small", warned |-> FALSE]
        ELSE IF f.width > MAX_WIDTH \/ f.height > MAX_HEIGHT
        THEN [valid |-> FALSE, error |-> "Image too large", warned |-> FALSE]
        ELSE [valid |-> TRUE, error |-> NoneVal,
              warned |-> unusual_aspect_ratio(f.width, f.height)]

\* ImageValidator.validate: (is_valid, error_message), and whether the
\* aspect-ratio warning was logged.
ImageValidator_validate(image_base64) ==
    LET d == b64decode(strip_data_url(image_base64))
        f == ImageFacts(d.bytes)
    IN  IF d.raised
        THEN [valid |-> FALSE, error |-> "Invalid base64 encoding", warned |-> FALSE]
        ELSE IF f.len > MAX_FILE_SIZE_MB * 1024 * 1024
        THEN [valid |-> FALSE, error |-> "Image too large (MB)", warned |-> FALSE]
        ELSE IF ~f.opens
        THEN [valid |-> FALSE, error |-> "Cannot open image", warned |-> FALSE]
        ELSE IF f.format \notin SUPPORTED_FORMATS
        THEN [valid |-> FALSE, error |-> "Unsupported format", warned |-> FALSE]
        ELSE IF f.width < MIN_WIDTH \/ f.height < MIN_HEIGHT
        THEN [valid |-> FALSE, error |-> "Image too small", warned |-> FALSE]
        ELSE IF f.width > MAX_WIDTH \/ f.height > MAX_HEIGHT
        THEN [valid |-> FALSE, error |-> "Image too large", warned |-> FALSE]
        ELSE [valid |-> TRUE, error |-> NoneVal,
              warned |-> unusual_aspect_ratio(f.width, f.height)]

\* ------------------------------------------------------------- dates
\* DateValidator.parse_date on the date strings of the model: the day of
\* January 2024, or None for the empty string and for text that is no date.
parse_date(date_string) ==
    CASE date_string = "2024-01-10" -> [parsed |-> TRUE, day |-> 10]
      [] date_string = "2024-01-15" -> [parsed |-> TRUE, day |-> 15]
      [] date_string = "2024-01-20" -> [parsed |-> TRUE, day |-> 20]
      [] date_string = "15 Jan 2024" -> [parsed |-> TRUE, day |-> 15]   \* dateutil
      [] OTHER -> [parsed |-> FALSE, day |-> 0]

\* Variant: a payment on the match date itself counted as too early.
validate_payment_date_strict(payment_date_str, match_date_str) ==
    IF payment_date_str = "" THEN [valid |-> TRUE, reason |-> NoneVal]
    ELSE IF match_date_str = NoneVal \/ match_date_str = ""
    THEN [valid |-> TRUE, reason |-> NoneVal]
    ELSE LET payment_date == parse_date(payment_date_str)
             match_d == parse_date(match_date_str)
         IN  IF ~payment_date.parsed THEN [valid |-> TRUE, reason |-> NoneVal]
             ELSE IF ~match_d.parsed THEN [valid |-> TRUE, reason |-> NoneVal]
             ELSE IF payment_date.day <= match_d.day
             THEN [valid |-> FALSE, reason |-> "date_mismatch"]
             ELSE [valid |-> TRUE, reason |-> NoneVal]

validate_payment_date(payment_date_str, match_date_str) ==
    IF payment_date_str = "" THEN [valid |-> TRUE, reason |-> NoneVal]
    ELSE IF match_date_str = NoneVal \/ match_date_str = ""
    THEN [valid |-> TRUE, reason |-> NoneVal]
    ELSE LET payment_date == parse_date(payment_date_str)
             match_d == parse_date(match_date_str)
         IN  IF ~payment_date.parsed THEN [valid |-> TRUE, reason |-> NoneVal]
             ELSE IF ~match_d.parsed THEN [valid |-> TRUE, reason |-> NoneVal]
             ELSE IF payment_date.day < match_d.day
             THEN [valid |-> FALSE, reason |-> "date_mismatch"]
             ELSE [valid |-> TRUE, reason |-> NoneVal]

\* ------------------------------------------------------------- models/schemas.py
\* PaymentData(): every field at its default.
PaymentData_default ==
    [amount |-> 0, currency |-> "INR", payer_name |-> "", payee_name |-> "",
     date |-> "", time |-> "", transaction_status |-> "unknown",
     transaction_id |-> "", payment_method |-> "unknown", upi_id |-> ""]

\* Variant: the field without its bounds.
confidence_in_range_unbounded(confidence) == TRUE

\* ResponseMetadata.confidence: Field(ge=0.0, le=1.0); a value outside makes the
\* constructor raise a ValidationError.
confidence_in_range(confidence) == 0 <= confidence /\ confidence <= 10

\* dict.get(key, default)
Get(d, key, default) == IF key \in DOMAIN d THEN d[key] ELSE default

\* ------------------------------------------------------------- payment_parser.py helpers
\* str.lower().strip() / str.upper().strip() on the strings of the model.
lower_strip(text) ==
    CASE text = "SUCCESS" -> "success"
      [] text = "Failed"  -> "failed"
      [] text = "Completed" -> "completed"
      [] text = " done " -> "done"
      [] text = "REJECTED" -> "rejected"
      [] text = "In Progress" -> "in progress"
      [] text = "PENDING\n" -> "pending"
      [] text = "Paid" -> "paid"
      [] OTHER -> text

upper_strip(text) ==
    CASE text = "gpay" -> "GPAY"
      [] text = "neft" -> "NEFT"
      [] text = "upi" -> "UPI"
      [] text = "Bhim" -> "BHIM"
      [] text = "PhonePe" -> "PHONEPE"
      [] text = " paytm " -> "PAYTM"
      [] text = "imps" -> "IMPS"
      [] text = "Google Pay" -> "GOOGLE PAY"
      [] text = "unknown" -> "UNKNOWN"
      [] OTHER -> text

\* Variant: a status the table does not know taken for pending.
_normalize_status_default_pending(status) ==
    IF status = NoneVal \/ status = "" THEN "unknown"
    ELSE LET status_lower == lower_strip(status)
         IN  IF status_lower \in {"completed", "success", "successful", "done"}
             THEN "completed"
             ELSE IF status_lower \in {"failed", "failure", "rejected"} THEN "failed"
             ELSE "pending"

_normalize_status(status) ==
    IF status = NoneVal \/ status = "" THEN "unknown"
    ELSE LET status_lower == lower_strip(status)
         IN  IF status_lower \in {"completed", "success", "successful", "done"}
             THEN "completed"
             ELSE IF status_lower \in {"failed", "failure", "rejected"} THEN "failed"
             ELSE IF status_lower \in {"pending", "processing", "in progress"}
             THEN "pending"
             ELSE "unknown"

_normalize_payment_method(method) ==
    IF method = NoneVal \/ method = "" THEN "unknown"
    ELSE LET method_upper == upper_strip(method)
         IN  IF method_upper \in {"UPI", "BHIM", "GPAY", "PHONEPE", "PAYTM"} THEN "UPI"
             ELSE IF method_upper = "NEFT" THEN "NEFT"
             ELSE IF method_upper = "IMPS" THEN "IMPS"
             ELSE "unknown"

\* Variant: every error code given as its own review reason.
error_to_review_reason_identity(error_code) == error_code

error_to_review_reason(error_code) ==
    CASE error_code = "ai_failed" -> "ai_uncertain"
      [] error_code = "invalid_image" -> "validation_failed"
      [] error_code = "payment_date_invalid" -> "date_mismatch"
      [] error_code = "not_payment_screenshot" -> "not_payment_screenshot"
      [] error_code = "validation_failed" -> "validation_failed"
      [] error_code = "service_error" -> "service_error"
      [] error_code = "service_disabled" -> "service_disabled"
      [] error_code = "daily_limit_exceeded" -> "service_disabled"
      [] error_code = "model_not_free" -> "service_disabled"
      [] OTHER -> "service_error"

\* Variant: the error envelope built with success left true.
_error_response_as_success(error_code, error_message, provider, model, model_cost_tier, image_hash) ==
    [success |-> TRUE, error_code |-> error_code, error_message |-> error_message,
     data |-> PaymentData_default,
     metadata |-> [confidence |-> 0, is_payment_screenshot |-> FALSE,
                   provider |-> provider, model |-> model,
                   model_cost_tier |-> model_cost_tier, image_hash |-> image_hash,
                   requires_review |-> TRUE,
                   review_reason |-> error_to_review_reason(error_code)]]

\* Variant: the error envelope built without the review flag.
_error_response_no_review(error_code, error_message, provider, model, model_cost_tier, image_hash) ==
    [success |-> FALSE, error_code |-> error_code, error_message |-> error_message,
     data |-> PaymentData_default,
     metadata |-> [confidence |-> 0, is_payment_screenshot |-> FALSE,
                   provider |-> provider, model |-> model,
                   model_cost_tier |-> model_cost_tier, image_hash |-> image_hash,
                   requires_review |-> FALSE,
                   review_reason |-> error_to_review_reason(error_code)]]

\* _error_response (processing_time_ms, a wall-clock reading, is left out of
\* the envelope).
_error_response(error_code, error_message, provider, model, model_cost_tier, image_hash) ==
    [success |-> FALSE, error_code |-> error_code, error_message |-> error_message,
     data |-> PaymentData_default,
     metadata |-> [confidence |-> 0, is_payment_screenshot |-> FALSE,
                   provider |-> provider, model |-> model,
                   model_cost_tier |-> model_cost_tier, image_hash |-> image_hash,
                   requires_review |-> TRUE,
                   review_reason |-> error_to_review_reason(error_code)]]

\* Variant: step 7 passing on what the provider extracted.
not_payment_response_keep_data(ai_result, provider, model, model_cost_tier, image_hash) ==
    [success |-> FALSE, error_code |-> "not_payment_screenshot",
     error_message |-> "Image is not a payment screenshot",
     data |-> [PaymentData_default EXCEPT !.amount = Get(ai_result, "amount", 0)],
     metadata |-> [confidence |-> Get(ai_result, "confidence", 0),
                   is_payment_screenshot |-> FALSE,
                   provider |-> provider, model |-> model,
                   model_cost_tier |-> model_cost_tier, image_hash |-> image_hash,
                   requires_review |-> TRUE,
                   review_reason |-> "not_payment_screenshot"]]

\* The envelope of step 7 (parse_payment_screenshot, lines 149-167).
not_payment_response(ai_result, provider, model, model_cost_tier, image_hash) ==
    [success |-> FALSE, error_code |-> "not_payment_screenshot",
     error_message |-> "Image is not a payment screenshot",
     data |-> PaymentData_default,
     metadata |-> [confidence |-> 0, is_payment_screenshot |-> FALSE,
                   provider |-> provider, model |-> model,
                   model_cost_tier |-> model_cost_tier, image_hash |-> image_hash,
                   requires_review |-> TRUE,
                   review_reason |-> "not_payment_screenshot"]]

\* Step 8: PaymentData built from the provider's dict.
build_payment_data(ai_result) ==
    [amount |-> Get(ai_result, "amount", 0),
     currency |-> Get(ai_result, "currency", "INR"),
     payer_name |-> Get(ai_result, "payer_name", ""),
     payee_name |-> Get(ai_result, "payee_name", ""),
     date |-> Get(ai_result, "date", ""),
     time |-> Get(ai_result, "time", ""),
     transaction_status |-> _normalize_status(Get(ai_result, "transaction_status", NoneVal)),
     transaction_id |-> Get(ai_result, "transaction_id", ""),
     payment_method |-> _normalize_payment_method(Get(ai_result, "payment_method", NoneVal)),
     upi_id |-> Get(ai_result, "upi_id", "")]

\* Variant: the confidence check sets the flag and forgets the reason.
review_triggers_flag_only(payment_data, confidence, match_date) ==
    LET low == confidence < MIN_CONFIDENCE_THRESHOLD
    IN  [requires_review |-> payment_data.amount <= 0 \/ low,
         review_reason |-> IF payment_data.amount <= 0 THEN "validation_failed" ELSE NoneVal]

\* Variant: the confidence check replacing whatever reason was set before it.
review_triggers_overwrite(payment_data, confidence, match_date) ==
    LET dv == validate_payment_date(payment_data.date, match_date)
        early == match_date # NoneVal /\ match_date # "" /\ payment_data.date # ""
                 /\ ~dv.valid
        low == confidence < MIN_CONFIDENCE_THRESHOLD
    IN  [requires_review |-> payment_data.amount <= 0 \/ early \/ low,
         review_reason |-> IF low THEN "low_confidence"
                           ELSE IF early THEN dv.reason
                           ELSE IF payment_data.amount <= 0 THEN "validation_failed"
                           ELSE NoneVal]

\* Steps 9-11: the review flag and reason after the amount, date and
\* confidence checks, each applied to what the one before left.
review_triggers(payment_data, confidence, match_date) ==
    LET s0 == [requires_review |-> FALSE, review_reason |-> NoneVal]
        s1 == IF payment_data.amount <= 0
              THEN [requires_review |-> TRUE, review_reason |-> "validation_failed"]
              ELSE s0
        dv == validate_payment_date(payment_data.date, match_date)
        s2 == IF match_date # NoneVal /\ match_date # "" /\ payment_data.date # ""
                 /\ ~dv.valid
              THEN [requires_review |-> TRUE, review_reason |-> dv.reason]
              ELSE s1
        s3 == IF confidence < MIN_CONFIDENCE_THRESHOLD
              THEN [requires_review |-> TRUE,
                    review_reason |-> IF s2.review_reason = NoneVal
                                      THEN "low_confidence"
                                      ELSE s2.review_reason]
              ELSE s2
    IN  s3

\* What a step of the try block yields when it raises instead of returning.
RaisedException == [raised |-> TRUE]

\* Variant: an answer that carries an amount taken for a payment whatever its
\* is_payment_screenshot says.
handle_ai_result_lenient(ai_result, match_date, provider_name, model_id, model_cost_tier, image_hash) ==
    IF "error" \in DOMAIN ai_result /\ ai_result.error # ""
    THEN _error_response("ai_failed", "AI processing failed", provider_name,
                         model_id, model_cost_tier, image_hash)
    ELSE IF ~Get(ai_result, "is_payment_screenshot", FALSE)
            /\ Get(ai_result, "amount", 0) = 0
    THEN not_payment_response(ai_result, provider_name, model_id, model_cost_tier,
                              image_hash)
    ELSE LET payment_data == build_payment_data(ai_result)
             confidence == Get(ai_result, "confidence", 0)
             review == review_triggers(payment_data, confidence, match_date)
         IN  IF ~confidence_in_range(confidence)
             THEN RaisedException
             ELSE [success |-> TRUE, error_code |-> NoneVal, error_message |-> NoneVal,
                   data |-> payment_data,
                   metadata |-> [confidence |-> confidence,
                                 is_payment_screenshot |-> TRUE,
                                 provider |-> provider_name, model |-> model_id,
                                 model_cost_tier |-> model_cost_tier,
                                 image_hash |-> image_hash,
                                 requires_review |-> review.requires_review,
                                 review_reason |-> review.review_reason]]

\* Variant: a payment date that fails the date check answered with an error
\* envelope of code payment_date_invalid.
handle_ai_result_date_error(ai_result, match_date, provider_name, model_id, model_cost_tier, image_hash) ==
    IF "error" \in DOMAIN ai_result /\ ai_result.error # ""
    THEN _error_response("ai_failed", "AI processing failed", provider_name,
                         model_id, model_cost_tier, image_hash)
    ELSE IF ~Get(ai_result, "is_payment_screenshot", FALSE)
    THEN not_payment_response(ai_result, provider_name, model_id, model_cost_tier,
                              image_hash)
    ELSE LET payment_data == build_payment_data(ai_result)
             confidence == Get(ai_result, "confidence", 0)
             review == review_triggers(payment_data, confidence, match_date)
         IN  IF review.review_reason = "date_mismatch"
             THEN _error_response("payment_date_invalid", "Payment date before match",
                                  provider_name, model_id, model_cost_tier, image_hash)
             ELSE IF ~confidence_in_range(confidence)
             THEN RaisedException
             ELSE [success |-> TRUE, error_code |-> NoneVal, error_message |-> NoneVal,
                   data |-> payment_data,
                   metadata |-> [confidence |-> confidence,
                                 is_payment_screenshot |-> TRUE,
                                 provider |-> provider_name, model |-> model_id,
                                 model_cost_tier |-> model_cost_tier,
                                 image_hash |-> image_hash,
                                 requires_review |-> review.requires_review,
                                 review_reason |-> review.review_reason]]

\* Steps 6-12 of parse_payment_screenshot (lines 136-230): the envelope it
\* returns for the provider's answer, or RaisedException.
handle_ai_result(ai_result, match_date, provider_name, model_id, model_cost_tier, image_hash) ==
    IF "error" \in DOMAIN ai_result /\ ai_result.error # ""
    THEN _error_response("ai_failed", "AI processing failed", provider_name,
                         model_id, model_cost_tier, image_hash)
    ELSE IF ~Get(ai_result, "is_payment_screenshot", FALSE)
    THEN not_payment_response(ai_result, provider_name, model_id, model_cost_tier,
                              image_hash)
    ELSE LET payment_data == build_payment_data(ai_result)
             confidence == Get(ai_result, "confidence", 0)
             review == review_triggers(payment_data, confidence, match_date)
         IN  IF ~confidence_in_range(confidence)
             THEN RaisedException      \* ResponseMetadata(...) raises ValidationError
             ELSE [success |-> TRUE, error_code |-> NoneVal, error_message |-> NoneVal,
                   data |-> payment_data,
                   metadata |-> [confidence |-> confidence,
                                 is_payment_screenshot |-> TRUE,
                                 provider |-> provider_name, model |-> model_id,
                                 model_cost_tier |-> model_cost_tier,
                                 image_hash |-> image_hash,
                                 requires_review |-> review.requires_review,
                                 review_reason |-> review.review_reason]]

\* Whether steps 6-10 reach the call of DateValidator.validate_payment_date
\* (line 195): no error, a payment screenshot, a match date and a payment date.
calls_date_validator(ai_result, match_date) ==
    /\ ~("error" \in DOMAIN ai_result /\ ai_result.error # "")
    /\ Get(ai_result, "is_payment_screenshot", FALSE)
    /\ match_date # NoneVal /\ match_date # ""
    /\ build_payment_data(ai_result).date # ""

\* ------------------------------------------------------------- providers/google_ai_studio.py
DEFAULT_MODEL == "gemma-3-27b-it"

\* Variant: the constructor keeping whatever model id it was given.
GoogleAIStudioProvider_init_unchecked(model_id) ==
    IF model_id = NoneVal \/ model_id = "" THEN DEFAULT_MODEL ELSE model_id

\* GoogleAIStudioProvider.__init__: the _model_id it leaves.
GoogleAIStudioProvider_init(model_id) ==
    LET m == IF model_id = NoneVal \/ model_id = "" THEN DEFAULT_MODEL ELSE model_id
    IN  IF ~is_model_allowed(m) THEN DEFAULT_MODEL ELSE m

fallbacks ==
    << "gemma-3-27b-it", "gemini-2.0-flash-exp", "gemini-2.0-flash",
       "gemini-2.0-flash-lite", "gemini-1.5-flash", "gemini-1.5-pro" >>

InSeq(x, seq) == \E i \in 1..Len(seq) : seq[i] = x

\* Variant: the fallbacks appended without the `not in models_to_try` test.
append_new_all(acc, seq, i) == acc \o seq

RECURSIVE append_new(_, _, _)
append_new(acc, seq, i) ==
    IF i > Len(seq) THEN acc
    ELSE append_new(IF InSeq(seq[i], acc) THEN acc ELSE Append(acc, seq[i]), seq, i + 1)

\* models_to_try = [self._model_id] + the fallbacks not already in it
models_to_try(model_id) == append_new(<<model_id>>, fallbacks, 1)

\* What one generation call can produce: an exception, or response.text.
\* A text is no JSON at all, JSON whose fields break the float() coercion
\* (a confidence of "high", a top-level list), or a JSON object.
PaymentObjects ==
    { [is_payment_screenshot |-> TRUE, amount |-> a, confidence |-> c, date |-> d,
       currency |-> "INR", payer_name |-> "Asha", payee_name |-> "Cricket Club",
       time |-> "18:30:00", transaction_status |-> "SUCCESS",
       transaction_id |-> "T123", payment_method |-> "gpay", upi_id |-> "asha@upi"] :
      a \in {0, 500}, c \in {5, 9}, d \in {"2024-01-10", "2024-01-15"} }
    \cup
    { [is_payment_screenshot |-> TRUE, amount |-> 500, confidence |-> 15,
       date |-> "2024-01-15", transaction_status |-> "Failed"],
      [is_payment_screenshot |-> TRUE, amount |-> -5, confidence |-> 9, date |-> ""],
      [is_payment_screenshot |-> TRUE, amount |-> 500, confidence |-> -2, date |-> ""] }

OtherObjects ==
    { [is_payment_screenshot |-> FALSE, detected_type |-> "selfie"],
      [is_payment_screenshot |-> FALSE, amount |-> 500, confidence |-> 9,
       date |-> "2024-01-10", transaction_status |-> "Failed",
       payment_method |-> "neft"],
      [amount |-> 500, confidence |-> 9, date |-> "2024-01-15"] }

ResponseTexts ==
    { [json |-> "invalid"], [json |-> "bad_fields"] }
    \cup { [json |-> "object", data |-> o] : o \in PaymentObjects \cup OtherObjects }

\* _parse_ai_response: the dict it returns, or the exception float() raises.
_parse_ai_response(response_text) ==
    IF response_text.json = "invalid"
    THEN [raised |-> FALSE,
          result |-> [error |-> "JSON parse error", is_payment_screenshot |-> FALSE,
                      confidence |-> 0]]
    ELSE IF response_text.json = "bad_fields"
    THEN [raised |-> TRUE, result |-> NoneVal]
    ELSE LET data == response_text.data
         IN  [raised |-> FALSE,
              result |->
                [is_payment_screenshot |-> Get(data, "is_payment_screenshot", FALSE),
                 confidence |-> Get(data, "confidence", 0),
                 amount |-> Get(data, "amount", 0),
                 currency |-> Get(data, "currency", "INR"),
                 payer_name |-> Get(data, "payer_name", ""),
                 payee_name |-> Get(data, "payee_name", ""),
                 date |-> Get(data, "date", ""),
                 time |-> Get(data, "time", ""),
                 transaction_status |-> Get(data, "transaction_status", "unknown"),
                 transaction_id |-> Get(data, "transaction_id", ""),
                 payment_method |-> Get(data, "payment_method", "unknown"),
                 upi_id |-> Get(data, "upi_id", ""),
                 detected_type |-> Get(data, "detected_type", "")]]

\* Variant: the failure of every candidate reported with an empty error text.
all_models_failed_silent(last_error) ==
    [error |-> "", is_payment_screenshot |-> FALSE, confidence |-> 0]

\* Lines 170-174; last_error is None when no candidate was attempted, and
\* str(None) is "None".
all_models_failed(last_error) ==
    [error |-> "All models failed. Last error: " \o last_error,
     is_payment_screenshot |-> FALSE, confidence |-> 0]

\* ------------------------------------------------------------- state
VARIABLES
    AI_SERVICE_ENABLED,  \* config.AI_SERVICE_ENABLED
    AI_PROVIDER,         \* config.AI_PROVIDER
    provider_model_id,   \* payment_parser._provider: None, or its _model_id
    _request_counter,    \* config._request_counter: [date, count]
    today,               \* date.today()
    running,             \* the request holding the event loop, 0 for none
    pc,                  \* each request's position in parse_payment_screenshot
    image_base64,        \* each request's arguments
    match_date,
    locals,              \* provider_name, model_id, model_cost_tier, image_hash
    loop,                \* parse_payment_image: models_to_try, index, last_error
    ai_result,           \* what parse_payment_image returned
    response,            \* what parse_payment_screenshot returned
    hist,                \* per request: what it did so far (not program state)
    gate,                \* the last direct evaluation of should_block_request
    direct               \* the last direct call of a library function

vars == << AI_SERVICE_ENABLED, AI_PROVIDER, provider_model_id, _request_counter,
           today, running, pc, image_base64, match_date, locals, loop, ai_result,
           response, hist, gate, direct >>

config_vars == << AI_SERVICE_ENABLED, AI_PROVIDER >>
request_vars == << pc, image_base64, match_date, locals, loop, ai_result, response, hist >>

Unbound == "<unbound>"     \* a local variable not assigned yet
PROVIDERS == {"google_ai_studio"}
MatchDates == {NoneVal, "2024-01-15"}

NoLocals == [provider_name |-> Unbound, model_id |-> Unbound,
             model_cost_tier |-> Unbound, image_hash |-> Unbound]
NoAnswer == [answer |-> FALSE]        \* parse_payment_image has not returned
NoEnvelope == [envelope |-> FALSE]    \* parse_payment_screenshot has not returned
NoLoop == [models |-> <<>>, i |-> 0, last_error |-> NoneVal]
NoGate == [evaluated |-> FALSE, model_id |-> NoneVal, block |-> FALSE,
           reason |-> NoneVal, count_today |-> 0]
NoHist == [increments |-> 0, attempts |-> <<>>, observed |-> -1, answered |-> NoneVal,
           requested |-> NoneVal, raised |-> NoneVal,
           steps |-> <<>>]
\* fn: the function called; args, result: what went in and came out;
\* increments: the increment_request_count() calls made since the calendar date
\* last changed (not program state).
NoDirect == [fn |-> NoneVal, args |-> <<>>, result |-> <<>>, increments |-> 0]

Init ==
    /\ AI_SERVICE_ENABLED \in BOOLEAN
    /\ \/ /\ AI_PROVIDER \in {"google_ai_studio", "openrouter"}
          /\ provider_model_id = NoneVal
       \/ /\ AI_PROVIDER = "google_ai_studio"
          /\ provider_model_id \in
                { GoogleAIStudioProvider_init(m) : m \in {"gemini-2.0-flash", "gpt-4o"} }
    /\ _request_counter = [date |-> 1, count |-> 0]
    /\ today = 1
    /\ running = 0
    /\ pc = [r \in Requests |-> "idle"]
    /\ image_base64 = [r \in Requests |-> <<>>]
    /\ match_date = [r \in Requests |-> NoneVal]
    /\ locals = [r \in Requests |-> NoLocals]
    /\ loop = [r \in Requests |-> NoLoop]
    /\ ai_result = [r \in Requests |-> NoAnswer]
    /\ response = [r \in Requests |-> NoEnvelope]
    /\ hist = [r \in Requests |-> NoHist]
    /\ gate = NoGate
    /\ direct = NoDirect

\* The except handler of parse_payment_screenshot (lines 232-242): it reads
\* model_cost_tier and image_hash, which are bound only once lines 86 and 89
\* have run; reading an unbound local raises UnboundLocalError out of the
\* handler, and so out of parse_payment_screenshot.
except_handler(l) ==
    IF l.model_cost_tier = Unbound \/ l.image_hash = Unbound
    THEN [escaped |-> TRUE, response |-> NoEnvelope]
    ELSE [escaped |-> FALSE,
          response |-> _error_response("service_error", "Unexpected error",
                                       l.provider_name, l.model_id,
                                       l.model_cost_tier, l.image_hash)]

\* ------------------------------------------------------------- actions
\* The calendar date changes.
Tick ==
    /\ today < MaxDay
    /\ today' = today + 1
    /\ direct' = [direct EXCEPT !.increments = 0]
    /\ UNCHANGED << config_vars, provider_model_id, _request_counter, running,
                    request_vars, gate >>

\* POST /parse-payment arrives (app.py:174-175): a coroutine for it is pending.
Arrive(r) ==
    /\ pc[r] = "idle"
    /\ pc' = [pc EXCEPT ![r] = "queued"]
    /\ UNCHANGED << config_vars, provider_model_id, _request_counter, today, running,
                    image_base64, match_date, locals, loop, ai_result, response,
                    hist, gate, direct >>

\* The event loop starts the coroutine with the request's arguments, and
\* lines 76-89 run: provider info, image hash, cost tier.
Begin(r) ==
    /\ pc[r] = "queued"
    /\ running = 0
    /\ running' = r
    /\ \E img \in Images, md \in MatchDates :
          /\ image_base64' = [image_base64 EXCEPT ![r] = img]
          /\ match_date' = [match_date EXCEPT ![r] = md]
          /\ LET l0 == [NoLocals EXCEPT !.provider_name = "", !.model_id = ""]
                 no_provider == provider_model_id = NoneVal /\ AI_PROVIDER \notin PROVIDERS
                 pm == IF provider_model_id = NoneVal
                       THEN GoogleAIStudioProvider_init(NoneVal)
                       ELSE provider_model_id
                 l1 == [l0 EXCEPT !.provider_name = "google_ai_studio", !.model_id = pm]
                 h == generate_image_hash(img)
                 l2 == [l1 EXCEPT !.image_hash = h.hash,
                                  !.model_cost_tier =
                                      IF is_model_allowed(pm) THEN "free" ELSE "paid"]
                 raised_locals == IF no_provider THEN l0 ELSE l1
                 e == except_handler(raised_locals)
             IN  IF no_provider \/ h.raised
                 THEN /\ locals' = [locals EXCEPT ![r] = raised_locals]
                      /\ provider_model_id' =
                            IF no_provider THEN provider_model_id ELSE pm
                      /\ pc' = [pc EXCEPT ![r] = IF e.escaped THEN "fault" ELSE "done"]
                      /\ response' = [response EXCEPT ![r] = e.response]
                      /\ hist' = [hist EXCEPT ![r].requested = raised_locals.model_id]
                 ELSE /\ locals' = [locals EXCEPT ![r] = l2]
                      /\ provider_model_id' = pm
                      /\ pc' = [pc EXCEPT ![r] = "guard"]
                      /\ hist' = [hist EXCEPT ![r].requested = pm]
                      /\ UNCHANGED response
    /\ UNCHANGED << config_vars, _request_counter, today, loop, ai_result, gate, direct >>

\* Lines 91-114: kill switch, then should_block_request(model_id).
Guard(r) ==
    /\ pc[r] = "guard"
    /\ running = r
    /\ LET l == locals[r]
           b == should_block_request(l.model_id, AI_SERVICE_ENABLED, _request_counter, today)
       IN  IF ~AI_SERVICE_ENABLED
           THEN /\ response' = [response EXCEPT ![r] =
                      _error_response("service_disabled", "AI service is disabled",
                                      l.provider_name, l.model_id, l.model_cost_tier,
                                      l.image_hash)]
                /\ pc' = [pc EXCEPT ![r] = "done"]
                /\ hist' = [hist EXCEPT ![r].steps = Append(@, "guardrail_blocked")]
                /\ UNCHANGED _request_counter
           ELSE /\ _request_counter' = b.counter
                /\ hist' = [hist EXCEPT ![r].observed = b.observed,
                                        ![r].steps = Append(@, IF b.block
                                                               THEN "guardrail_blocked"
                                                               ELSE "guardrail_allowed")]
                /\ IF b.block
                   THEN /\ response' = [response EXCEPT ![r] =
                              _error_response(b.reason, "Request blocked",
                                              l.provider_name, l.model_id,
                                              l.model_cost_tier, l.image_hash)]
                        /\ pc' = [pc EXCEPT ![r] = "done"]
                   ELSE /\ pc' = [pc EXCEPT ![r] = "validate"]
                        /\ UNCHANGED response
    /\ UNCHANGED << config_vars, provider_model_id, today, running, image_base64,
                    match_date, locals, loop, ai_result, gate, direct >>

\* Variant: the verdict of the image validation ignored.
Validate_ignored(r) ==
    /\ pc[r] = "validate"
    /\ running = r
    /\ pc' = [pc EXCEPT ![r] = "increment"]
    /\ hist' = [hist EXCEPT ![r].steps =
                    Append(@, IF ImageValidator_validate(image_base64[r]).valid
                              THEN "image_valid" ELSE "image_invalid")]
    /\ UNCHANGED << config_vars, provider_model_id, _request_counter, today, running,
                    image_base64, match_date, locals, loop, ai_result, response, gate,
                    direct >>

\* Lines 116-127: ImageValidator.validate.
Validate(r) ==
    /\ pc[r] = "validate"
    /\ running = r
    /\ LET l == locals[r]
           v == ImageValidator_validate(image_base64[r])
       IN  IF ~v.valid
           THEN /\ response' = [response EXCEPT ![r] =
                      _error_response("invalid_image", v.error, l.provider_name,
                                      l.model_id, l.model_cost_tier, l.image_hash)]
                /\ pc' = [pc EXCEPT ![r] = "done"]
                /\ hist' = [hist EXCEPT ![r].steps = Append(@, "image_invalid")]
           ELSE /\ pc' = [pc EXCEPT ![r] = "increment"]
                /\ hist' = [hist EXCEPT ![r].steps = Append(@, "image_valid")]
                /\ UNCHANGED response
    /\ UNCHANGED << config_vars, provider_model_id, _request_counter, today, running,
                    image_base64, match_date, locals, loop, ai_result, gate, direct >>

\* Line 130: increment_request_count().
Increment(r) ==
    /\ pc[r] = "increment"
    /\ running = r
    /\ _request_counter' = increment_request_count(_request_counter, today).counter
    /\ hist' = [hist EXCEPT ![r].increments = @ + 1,
                            ![r].steps = Append(@, "increment")]
    /\ direct' = [direct EXCEPT !.increments = @ + 1]
    /\ pc' = [pc EXCEPT ![r] = "log"]
    /\ UNCHANGED << config_vars, provider_model_id, today, running, image_base64,
                    match_date, locals, loop, ai_result, response, gate >>

\* Line 131: the log line evaluates get_request_count().
LogCount(r) ==
    /\ pc[r] = "log"
    /\ running = r
    /\ _request_counter' = get_request_count(_request_counter, today).counter
    /\ pc' = [pc EXCEPT ![r] = "provider"]
    /\ UNCHANGED << config_vars, provider_model_id, today, running, image_base64,
                    match_date, locals, loop, ai_result, response, hist, gate, direct >>

\* The `for model_id in models_to_try` loop skips (continue) a candidate that is
\* not allowed: the index of the next candidate it attempts, from index i on;
\* Len(models) + 1 when there is none.
RECURSIVE next_candidate(_, _)
next_candidate(models, i) ==
    IF i > Len(models) THEN i
    ELSE IF is_model_allowed(models[i]) THEN i
    ELSE next_candidate(models, i + 1)

\* Lines 134 and 93-141 of the adapter: parse_payment_image is entered; the
\* image is decoded again and models_to_try is built from the active model.
ProviderEnter(r) ==
    /\ pc[r] = "provider"
    /\ running = r
    /\ IF b64decode(strip_data_url(image_base64[r])).raised
       THEN /\ ai_result' = [ai_result EXCEPT ![r] =
                  [error |-> "Image preparation failed",
                   is_payment_screenshot |-> FALSE, confidence |-> 0]]
            /\ pc' = [pc EXCEPT ![r] = "answer"]
            /\ UNCHANGED loop
       ELSE /\ loop' = [loop EXCEPT ![r] =
                  [models |-> models_to_try(provider_model_id), i |-> 1,
                   last_error |-> NoneVal]]
            /\ pc' = [pc EXCEPT ![r] = "loop"]
            /\ UNCHANGED ai_result
    /\ hist' = [hist EXCEPT ![r].steps = Append(@, "provider")]
    /\ UNCHANGED << config_vars, provider_model_id, _request_counter, today, running,
                    image_base64, match_date, locals, response, gate, direct >>

\* Variant: every failed candidate charged to the daily quota.
AttemptFails_charged(r) ==
    /\ pc[r] = "loop"
    /\ running = r
    /\ LET k == next_candidate(loop[r].models, loop[r].i)
       IN  /\ k <= Len(loop[r].models)
           /\ provider_model_id' = loop[r].models[k]
           /\ hist' = [hist EXCEPT ![r].attempts = Append(@, loop[r].models[k]),
                                   ![r].raised = "generation failed: " \o loop[r].models[k]]
           /\ loop' = [loop EXCEPT ![r].i = k + 1,
                                   ![r].last_error = "generation failed: " \o loop[r].models[k]]
    /\ _request_counter' = increment_request_count(_request_counter, today).counter
    /\ UNCHANGED << config_vars, today, running, pc, image_base64,
                    match_date, locals, ai_result, response, gate, direct >>

\* Lines 143-167, one iteration whose generation call raises.
AttemptFails(r) ==
    /\ pc[r] = "loop"
    /\ running = r
    /\ LET k == next_candidate(loop[r].models, loop[r].i)
       IN  /\ k <= Len(loop[r].models)
           /\ provider_model_id' = loop[r].models[k]
           /\ hist' = [hist EXCEPT ![r].attempts = Append(@, loop[r].models[k]),
                                   ![r].raised = "generation failed: " \o loop[r].models[k]]
           /\ loop' = [loop EXCEPT ![r].i = k + 1,
                                   ![r].last_error = "generation failed: " \o loop[r].models[k]]
    /\ UNCHANGED << config_vars, _request_counter, today, running, pc, image_base64,
                    match_date, locals, ai_result, response, gate, direct >>

\* Variant: a JSON parse error kept as the answer so far while the loop goes
\* on to the next candidate.
AttemptAnswers_retry_on_json_error(r) ==
    /\ pc[r] = "loop"
    /\ running = r
    /\ LET k == next_candidate(loop[r].models, loop[r].i)
       IN  /\ k <= Len(loop[r].models)
           /\ provider_model_id' = loop[r].models[k]
           /\ \E text \in ResponseTexts :
                LET parsed == _parse_ai_response(text)
                IN  IF parsed.raised
                    THEN /\ loop' = [loop EXCEPT ![r].i = k + 1,
                                                 ![r].last_error =
                                                     "could not convert: " \o loop[r].models[k]]
                         /\ hist' = [hist EXCEPT ![r].attempts = Append(@, loop[r].models[k]),
                                                 ![r].raised =
                                                     "could not convert: " \o loop[r].models[k]]
                         /\ UNCHANGED << pc, ai_result >>
                    ELSE /\ ai_result' = [ai_result EXCEPT ![r] = parsed.result]
                         /\ hist' = [hist EXCEPT ![r].attempts = Append(@, loop[r].models[k]),
                                                 ![r].answered = loop[r].models[k]]
                         /\ IF "error" \in DOMAIN parsed.result /\ k < Len(loop[r].models)
                            THEN /\ loop' = [loop EXCEPT ![r].i = k + 1]
                                 /\ UNCHANGED pc
                            ELSE /\ pc' = [pc EXCEPT ![r] = "answer"]
                                 /\ loop' = [loop EXCEPT ![r].i = k]
    /\ UNCHANGED << config_vars, _request_counter, today, running, image_base64,
                    match_date, locals, response, gate, direct >>

\* Lines 143-167, one iteration whose generation call returns a text:
\* _parse_ai_response returns (the loop ends) or raises (next candidate).
AttemptAnswers(r) ==
    /\ pc[r] = "loop"
    /\ running = r
    /\ LET k == next_candidate(loop[r].models, loop[r].i)
       IN  /\ k <= Len(loop[r].models)
           /\ provider_model_id' = loop[r].models[k]
           /\ \E text \in ResponseTexts :
                LET parsed == _parse_ai_response(text)
                IN  IF parsed.raised
                    THEN /\ loop' = [loop EXCEPT ![r].i = k + 1,
                                                 ![r].last_error =
                                                     "could not convert: " \o loop[r].models[k]]
                         /\ hist' = [hist EXCEPT ![r].attempts = Append(@, loop[r].models[k]),
                                                 ![r].raised =
                                                     "could not convert: " \o loop[r].models[k]]
                         /\ UNCHANGED << pc, ai_result >>
                    ELSE /\ ai_result' = [ai_result EXCEPT ![r] = parsed.result]
                         /\ hist' = [hist EXCEPT ![r].attempts = Append(@, loop[r].models[k]),
                                                 ![r].answered = loop[r].models[k]]
                         /\ pc' = [pc EXCEPT ![r] = "answer"]
                         /\ loop' = [loop EXCEPT ![r].i = k]
    /\ UNCHANGED << config_vars, _request_counter, today, running, image_base64,
                    match_date, locals, response, gate, direct >>

\* Lines 169-174: every candidate failed.
AllFailed(r) ==
    /\ pc[r] = "loop"
    /\ running = r
    /\ next_candidate(loop[r].models, loop[r].i) > Len(loop[r].models)
    /\ ai_result' = [ai_result EXCEPT ![r] = all_models_failed(loop[r].last_error)]
    /\ pc' = [pc EXCEPT ![r] = "answer"]
    /\ UNCHANGED << config_vars, provider_model_id, _request_counter, today, running,
                    image_base64, match_date, locals, loop, response, hist, gate, direct >>

\* Lines 136-242: the orchestrator turns the provider's answer into the envelope.
Finish(r) ==
    /\ pc[r] = "answer"
    /\ running = r
    /\ LET l == locals[r]
           out == handle_ai_result(ai_result[r], match_date[r], l.provider_name,
                                   l.model_id, l.model_cost_tier, l.image_hash)
           e == except_handler(l)
       IN  IF "raised" \in DOMAIN out
           THEN /\ response' = [response EXCEPT ![r] = e.response]
                /\ pc' = [pc EXCEPT ![r] = IF e.escaped THEN "fault" ELSE "done"]
           ELSE /\ response' = [response EXCEPT ![r] = out]
                /\ pc' = [pc EXCEPT ![r] = "done"]
    /\ hist' = [hist EXCEPT ![r].steps =
                    IF calls_date_validator(ai_result[r], match_date[r])
                    THEN Append(@, "dates") ELSE @]
    /\ UNCHANGED << config_vars, provider_model_id, _request_counter, today, running,
                    image_base64, match_date, locals, loop, ai_result, gate, direct >>

\* app.py:189-206: the endpoint logs and returns the envelope (or the exception
\* leaves it); the coroutine ends and the event loop is free again.
Return(r) ==
    /\ pc[r] \in {"done", "fault"}
    /\ running = r
    /\ running' = 0
    /\ pc' = [pc EXCEPT ![r] = "idle"]
    /\ image_base64' = [image_base64 EXCEPT ![r] = <<>>]
    /\ match_date' = [match_date EXCEPT ![r] = NoneVal]
    /\ locals' = [locals EXCEPT ![r] = NoLocals]
    /\ loop' = [loop EXCEPT ![r] = NoLoop]
    /\ ai_result' = [ai_result EXCEPT ![r] = NoAnswer]
    /\ response' = [response EXCEPT ![r] = NoEnvelope]
    /\ hist' = [hist EXCEPT ![r] = NoHist]
    /\ UNCHANGED << config_vars, provider_model_id, _request_counter, today, gate, direct >>

\* GET /status (app.py:114-122): get_service_status() reads the count twice.
\* The handler is a coroutine on the same event loop and has no await.
Status ==
    /\ running = 0
    /\ LET first == get_request_count(_request_counter, today)
           second == get_request_count(first.counter, today)
       IN  _request_counter' = second.counter
    /\ UNCHANGED << config_vars, provider_model_id, today, running, request_vars,
                    gate, direct >>

Next ==
    \/ Tick
    \/ Status
    \/ \E r \in Requests :
          \/ Arrive(r)
          \/ Begin(r)
          \/ Guard(r)
          \/ Validate(r)
          \/ Increment(r)
          \/ LogCount(r)
          \/ ProviderEnter(r)
          \/ AttemptFails(r)
          \/ AttemptAnswers(r)
          \/ AllFailed(r)
          \/ Finish(r)
          \/ Return(r)

Spec == Init /\ [][Next]_vars

\* The event loop runs every coroutine that is ready (asyncio's ready queue is
\* first in, first out), a running coroutine goes on to its next statement, and
\* each generation call returns or raises.  Requests need not arrive and the
\* date need not change.  Every step of a request changes its position or its
\* place in the fallback loop.
progress_vars == << pc, loop >>

SpecLive ==
    /\ Spec
    /\ \A r \in Requests :
          /\ SF_progress_vars(Begin(r))
          /\ WF_progress_vars(Guard(r) \/ Validate(r) \/ Increment(r) \/ LogCount(r)
                        \/ ProviderEnter(r) \/ AttemptFails(r) \/ AttemptAnswers(r)
                        \/ AllFailed(r) \/ Finish(r) \/ Return(r))

\* ------------------------------------------------------------- the gate alone
\* should_block_request evaluated directly, for any model id, in any state the
\* counter and the calendar can be in.
InitGate ==
    /\ AI_SERVICE_ENABLED \in BOOLEAN
    /\ AI_PROVIDER = "google_ai_studio"
    /\ provider_model_id = NoneVal
    /\ today \in Days
    /\ _request_counter \in
          { c \in [date : Days, count : 0..DAILY_REQUEST_LIMIT] : c.date <= today }
    /\ running = 0
    /\ pc = [r \in Requests |-> "idle"]
    /\ image_base64 = [r \in Requests |-> <<>>]
    /\ match_date = [r \in Requests |-> NoneVal]
    /\ locals = [r \in Requests |-> NoLocals]
    /\ loop = [r \in Requests |-> NoLoop]
    /\ ai_result = [r \in Requests |-> NoAnswer]
    /\ response = [r \in Requests |-> NoEnvelope]
    /\ hist = [r \in Requests |-> NoHist]
    /\ gate = NoGate
    /\ direct = NoDirect

GateEval(model_id) ==
    /\ LET b == should_block_request(model_id, AI_SERVICE_ENABLED, _request_counter, today)
       IN  /\ gate' = [evaluated |-> TRUE, model_id |-> model_id, block |-> b.block, reason |-> b.reason,
                       count_today |-> get_request_count(_request_counter, today).value]
           /\ _request_counter' = b.counter
    /\ UNCHANGED << config_vars, provider_model_id, today, running, request_vars,
                    direct >>

NextGate ==
    \/ Tick
    \/ \E model_id \in ModelIds : GateEval(model_id)

SpecGate == InitGate /\ [][NextGate]_vars

\* ------------------------------------------------------------- library calls
\* The functions of date_validator.py, image_utils.py and config.py called
\* directly, as a test or another module would call them.
MaxIncrements == 3    \* direct increment_request_count() calls per calendar date

\* Date strings: empty, ISO dates, a date dateutil reads, an ISO-shaped string
\* strptime rejects, text without a date.
DateStrings == { "", "2024-01-10", "2024-01-15", "2024-01-20", "15 Jan 2024",
                 "2024-13-45", "paid yesterday" }

DataUrlPrefixes == { "data:image/png;base64", "data:image/jpeg;base64" }
Payloads == { "B64_PNG", "B64_HUGE", "B64_TINY", "B64_BROKEN" }
HashInputs == { <<p>> : p \in Payloads }
              \cup { <<x, p>> : x \in DataUrlPrefixes, p \in Payloads }

InitDirect ==
    /\ AI_SERVICE_ENABLED = TRUE
    /\ AI_PROVIDER = "google_ai_studio"
    /\ provider_model_id = NoneVal
    /\ _request_counter = [date |-> 1, count |-> 0]
    /\ today = 1
    /\ running = 0
    /\ pc = [r \in Requests |-> "idle"]
    /\ image_base64 = [r \in Requests |-> <<>>]
    /\ match_date = [r \in Requests |-> NoneVal]
    /\ locals = [r \in Requests |-> NoLocals]
    /\ loop = [r \in Requests |-> NoLoop]
    /\ ai_result = [r \in Requests |-> NoAnswer]
    /\ response = [r \in Requests |-> NoEnvelope]
    /\ hist = [r \in Requests |-> NoHist]
    /\ gate = NoGate
    /\ direct = NoDirect

\* DateValidator.validate_payment_date(payment_date_str, match_date_str)
DateCall(payment_date_str, match_date_str) ==
    /\ LET v == validate_payment_date(payment_date_str, match_date_str)
       IN  direct' = [direct EXCEPT !.fn = "validate_payment_date",
                                    !.args = <<payment_date_str, match_date_str>>,
                                    !.result = <<v.valid, v.reason>>]
    /\ UNCHANGED << config_vars, provider_model_id, _request_counter, today, running,
                    request_vars, gate >>

\* generate_image_hash called on one input and then on another.
HashCalls(first, second) ==
    /\ direct' = [direct EXCEPT !.fn = "generate_image_hash",
                                !.args = <<first, second>>,
                                !.result = <<generate_image_hash(first),
                                             generate_image_hash(second)>>]
    /\ UNCHANGED << config_vars, provider_model_id, _request_counter, today, running,
                    request_vars, gate >>

\* increment_request_count(); args are the counter and the date it found.
QuotaIncrement ==
    /\ direct.increments < MaxIncrements
    /\ LET n == increment_request_count(_request_counter, today)
       IN  /\ _request_counter' = n.counter
           /\ direct' = [fn |-> "increment_request_count",
                         args |-> <<_request_counter, today>>,
                         result |-> <<n.value>>,
                         increments |-> direct.increments + 1]
    /\ UNCHANGED << config_vars, provider_model_id, today, running, request_vars, gate >>

\* get_request_count()
QuotaGet ==
    /\ LET g == get_request_count(_request_counter, today)
       IN  /\ _request_counter' = g.counter
           /\ direct' = [direct EXCEPT !.fn = "get_request_count",
                                       !.args = <<_request_counter, today>>,
                                       !.result = <<g.value>>]
    /\ UNCHANGED << config_vars, provider_model_id, today, running, request_vars, gate >>

\* The images handed to ImageValidator.validate: each sample and each payload
\* of the pipeline, bare and as a data URL.
ValidatorInputs ==
    LET payloads == Payloads \cup { b64encode(b) : b \in SampleBytes }
    IN  { <<p>> : p \in payloads } \cup { <<"data:image/png;base64", p>> : p \in payloads }

\* ImageValidator.validate(image_base64)
ValidateCall(image) ==
    /\ direct' = [direct EXCEPT !.fn = "ImageValidator.validate",
                                !.args = <<image>>,
                                !.result = <<ImageValidator_validate(image)>>]
    /\ UNCHANGED << config_vars, provider_model_id, _request_counter, today, running,
                    request_vars, gate >>

\* Status and method texts: every name of the two tables, names in other
\* case or with white space around them, names the tables do not have, the
\* empty string and None.
StatusTexts ==
    { "completed", "success", "successful", "done", "failed", "failure", "rejected",
      "pending", "processing", "in progress", "SUCCESS", "Failed", "Completed",
      " done ", "REJECTED", "In Progress", "PENDING\n", "Paid", "successfully",
      "in_progress", "unknown", "", NoneVal }

MethodTexts ==
    { "UPI", "BHIM", "GPAY", "PHONEPE", "PAYTM", "NEFT", "IMPS", "gpay", "neft", "upi",
      "Bhim", "PhonePe", " paytm ", "imps", "Google Pay", "RTGS", "CARD", "UPI ID",
      "unknown", "", NoneVal }

\* PaymentParserService._normalize_status(status)
NormalizeStatusCall(status) ==
    /\ direct' = [direct EXCEPT !.fn = "_normalize_status",
                                !.args = <<status>>,
                                !.result = <<_normalize_status(status)>>]
    /\ UNCHANGED << config_vars, provider_model_id, _request_counter, today, running,
                    request_vars, gate >>

\* PaymentParserService._normalize_payment_method(method)
NormalizeMethodCall(method) ==
    /\ direct' = [direct EXCEPT !.fn = "_normalize_payment_method",
                                !.args = <<method>>,
                                !.result = <<_normalize_payment_method(method)>>]
    /\ UNCHANGED << config_vars, provider_model_id, _request_counter, today, running,
                    request_vars, gate >>

\* GoogleAIStudioProvider._parse_ai_response(response_text)
ParseCall(response_text) ==
    /\ direct' = [direct EXCEPT !.fn = "_parse_ai_response",
                                !.args = <<response_text>>,
                                !.result = <<_parse_ai_response(response_text)>>]
    /\ UNCHANGED << config_vars, provider_model_id, _request_counter, today, running,
                    request_vars, gate >>

NextDirect ==
    \/ Tick
    \/ \E text \in ResponseTexts : ParseCall(text)
    \/ \E image \in ValidatorInputs : ValidateCall(image)
    \/ \E status \in StatusTexts : NormalizeStatusCall(status)
    \/ \E method \in MethodTexts : NormalizeMethodCall(method)
    \/ \E p \in DateStrings, m \in DateStrings \cup {NoneVal} : DateCall(p, m)
    \/ \E first \in HashInputs, second \in HashInputs : HashCalls(first, second)
    \/ QuotaIncrement
    \/ QuotaGet

SpecDirect == InitDirect /\ [][NextDirect]_vars

\* ------------------------------------------------------------- claims
Done(r) == pc[r] = "done"

\* count_today() as a caller would read it now, without the write it makes.
CountToday == get_request_count(_request_counter, today).value

\* C1: parse_payment_screenshot returns an envelope for every input and never
\* lets an exception escape to its caller.
C1_NoFaultEscapes == \A r \in Requests : pc[r] # "fault"

\* C2: every model id for which a generation call is issued is in the free
\* whitelist.
C2_OnlyWhitelistedCalls ==
    \A r \in Requests :
        \A i \in 1..Len(hist[r].attempts) : hist[r].attempts[i] \in ALLOWED_FREE_MODELS

C2_Witness ==
    \E r \in Requests :
        /\ Len(hist[r].attempts) >= 3
        /\ hist[r].attempts[1] = hist[r].requested
        /\ hist[r].attempts[3] # hist[r].requested

\* C3: no other request runs between a request's limit check and its increment,
\* the daily count never exceeds the limit, and a request that read a count at
\* or above the limit ends with daily_limit_exceeded.
C3_LimitNeverExceeded ==
    /\ _request_counter.count <= DAILY_REQUEST_LIMIT
    /\ Cardinality({ r \in Requests : pc[r] \in {"validate", "increment"} }) <= 1
    /\ \A r \in Requests :
          hist[r].observed >= DAILY_REQUEST_LIMIT =>
              /\ Done(r)
              /\ response[r].error_code = "daily_limit_exceeded"

C3_Witness ==
    \E r, q \in Requests :
        /\ r # q
        /\ pc[q] = "queued"
        /\ Done(r)
        /\ hist[r].observed = DAILY_REQUEST_LIMIT
        /\ _request_counter = [date |-> today, count |-> DAILY_REQUEST_LIMIT]

\* C4: a returned envelope has success = true exactly when error_code is absent.
C4_SuccessIffNoErrorCode ==
    \A r \in Requests :
        Done(r) => (response[r].success <=> response[r].error_code = NoneVal)

C4_Witness ==
    \E r \in Requests : Done(r) /\ response[r].success /\ hist[r].answered # NoneVal

\* C5: a returned envelope has requires_review = true exactly when review_reason
\* is present.
C5_ReviewIffReason ==
    \A r \in Requests :
        Done(r) => (response[r].metadata.requires_review
                        <=> response[r].metadata.review_reason # NoneVal)

C5_Witness ==
    \E r \in Requests :
        /\ Done(r)
        /\ response[r].success
        /\ response[r].data.amount > 0
        /\ response[r].metadata.confidence < MIN_CONFIDENCE_THRESHOLD
        /\ response[r].metadata.requires_review
        /\ response[r].metadata.review_reason = "low_confidence"

\* C6: an envelope with success = false has requires_review = true.
C6_FailureRequiresReview ==
    \A r \in Requests :
        (Done(r) /\ ~response[r].success) => response[r].metadata.requires_review

C6_Witness ==
    \E r \in Requests :
        Done(r) /\ ~response[r].success /\ response[r].error_code = "invalid_image"

\* C7: an envelope with success = false carries the zero-valued payment record,
\* confidence 0 and is_payment_screenshot = false, whatever the provider said.
C7_FailureIsZeroValued ==
    \A r \in Requests :
        (Done(r) /\ ~response[r].success) =>
            /\ response[r].data = PaymentData_default
            /\ response[r].metadata.confidence = 0
            /\ response[r].metadata.is_payment_screenshot = FALSE

C7_Witness ==
    \E r \in Requests :
        /\ Done(r)
        /\ response[r].error_code = "not_payment_screenshot"
        /\ hist[r].answered # NoneVal
        /\ ai_result[r].amount = 500
        /\ ai_result[r].confidence = 9

\* C8: should_block_request decides in the order kill switch, whitelist, daily
\* limit, and the first check that fails gives the reason.
C8_GuardrailOrder ==
    gate.evaluated =>
        IF ~AI_SERVICE_ENABLED
        THEN gate.block /\ gate.reason = "service_disabled"
        ELSE IF gate.model_id \notin ALLOWED_FREE_MODELS
        THEN gate.block /\ gate.reason = "model_not_free"
        ELSE IF gate.count_today >= DAILY_REQUEST_LIMIT
        THEN gate.block /\ gate.reason = "daily_limit_exceeded"
        ELSE ~gate.block

C8_Witness ==
    /\ gate.evaluated
    /\ AI_SERVICE_ENABLED
    /\ gate.model_id \notin ALLOWED_FREE_MODELS
    /\ gate.count_today >= DAILY_REQUEST_LIMIT
    /\ gate.reason = "model_not_free"

\* A request the guardrail blocked, or whose image failed validation, made no
\* increment and no provider call.
C9_BlockedLeavesNoTrace ==
    \A r \in Requests :
        (Done(r) /\ response[r].error_code \in
            {"service_disabled", "model_not_free", "daily_limit_exceeded", "invalid_image"})
        => /\ hist[r].increments = 0
           /\ hist[r].attempts = << >>
           /\ hist[r].answered = NoneVal

\* On an unchanged date, count_today() changes only by a request's increment step.
C9_CountChangesOnlyByIncrement ==
    (today' = today /\ CountToday' # CountToday) =>
        \E r \in Requests : pc[r] = "increment" /\ pc'[r] = "log"

\* C9: a request that ends blocked by the guardrail (service_disabled,
\* model_not_free, daily_limit_exceeded) or with invalid_image leaves the quota
\* count, as count_today() reports it, unchanged and issues no provider call.
C9_BlockedRequestIsFree ==
    [] C9_BlockedLeavesNoTrace /\ [][C9_CountChangesOnlyByIncrement]_vars

C9_Witness ==
    \E r \in Requests :
        /\ Done(r)
        /\ response[r].error_code = "invalid_image"
        /\ image_base64[r] = <<"B64_HUGE">>
        /\ _request_counter.count > 0
        /\ _request_counter.date = today

\* C10: the envelope's model is the candidate that answered, and its cost tier
\* is that candidate's.
C10_ModelIsResponder ==
    \A r \in Requests :
        (Done(r) /\ hist[r].answered # NoneVal) =>
            /\ response[r].metadata.model = hist[r].answered
            /\ response[r].metadata.model_cost_tier =
                  (IF hist[r].answered \in ALLOWED_FREE_MODELS THEN "free" ELSE "paid")

\* The envelope of request r is a success whose payment date is a date earlier
\* than the match date the request named.
PaymentDateEarlier(r) ==
    /\ match_date[r] # NoneVal
    /\ parse_date(response[r].data.date).parsed
    /\ parse_date(match_date[r]).parsed
    /\ parse_date(response[r].data.date).day < parse_date(match_date[r]).day

\* C11: on a success where several review triggers apply, the first in the order
\* amount, date, confidence gives the reason; with amount <= 0 and a payment date
\* earlier than match_date the reason is validation_failed.
C11_FirstReasonWins ==
    \A r \in Requests :
        (Done(r) /\ response[r].success) =>
            response[r].metadata.review_reason =
                (IF response[r].data.amount <= 0 THEN "validation_failed"
                 ELSE IF PaymentDateEarlier(r) THEN "date_mismatch"
                 ELSE IF response[r].metadata.confidence < MIN_CONFIDENCE_THRESHOLD
                 THEN "low_confidence"
                 ELSE NoneVal)

\* C12: on a success with confidence below the threshold requires_review is true,
\* and review_reason is low_confidence exactly when neither the amount check nor
\* the date check set a reason.
C12_LowConfidence ==
    \A r \in Requests :
        (Done(r) /\ response[r].success
            /\ response[r].metadata.confidence < MIN_CONFIDENCE_THRESHOLD) =>
            /\ response[r].metadata.requires_review
            /\ response[r].metadata.review_reason = "low_confidence"
                  <=> (response[r].data.amount > 0 /\ ~PaymentDateEarlier(r))

C12_Witness ==
    \E r \in Requests :
        /\ Done(r) /\ response[r].success
        /\ response[r].data.amount = 500
        /\ response[r].metadata.confidence = 5
        /\ match_date[r] = "2024-01-15" /\ response[r].data.date = "2024-01-15"
        /\ response[r].metadata.requires_review
        /\ response[r].metadata.review_reason = "low_confidence"

\* C13: an answer without error whose is_payment_screenshot is false or missing
\* gives success = false with error_code and review_reason not_payment_screenshot,
\* whatever else the answer holds.
C13_NotPaymentScreenshot ==
    \A r \in Requests :
        (Done(r) /\ hist[r].answered # NoneVal /\ "error" \notin DOMAIN ai_result[r]
            /\ ~ai_result[r].is_payment_screenshot) =>
            /\ ~response[r].success
            /\ response[r].error_code = "not_payment_screenshot"
            /\ response[r].metadata.review_reason = "not_payment_screenshot"

C13_Witness ==
    \E r \in Requests :
        /\ Done(r) /\ hist[r].answered # NoneVal /\ "error" \notin DOMAIN ai_result[r]
        /\ ~ai_result[r].is_payment_screenshot
        /\ ai_result[r].amount = 500 /\ ai_result[r].date = "2024-01-15"
        /\ response[r].error_code = "not_payment_screenshot"

\* The candidates of request r's fallback list that the whitelist lets through.
RECURSIVE WhitelistedCandidates(_, _)
WhitelistedCandidates(models, i) ==
    IF i > Len(models) THEN <<>>
    ELSE IF models[i] \in ALLOWED_FREE_MODELS
    THEN <<models[i]>> \o WhitelistedCandidates(models, i + 1)
    ELSE WhitelistedCandidates(models, i + 1)

AllCandidatesFailed(r) ==
    /\ pc[r] \in {"answer", "done"}
    /\ hist[r].answered = NoneVal
    /\ hist[r].attempts # <<>>
    /\ hist[r].attempts = WhitelistedCandidates(loop[r].models, 1)

\* C14: when every whitelisted candidate failed, parse_payment_image returns a
\* failure with the last candidate's error, is_payment_screenshot = false and
\* confidence 0, and the envelope has error_code ai_failed and review_reason
\* ai_uncertain.
C14_AllCandidatesFailed ==
    \A r \in Requests :
        AllCandidatesFailed(r) =>
            /\ ai_result[r].error = "All models failed. Last error: " \o hist[r].raised
            /\ \E what \in {"generation failed: ", "could not convert: "} :
                  hist[r].raised = what \o hist[r].attempts[Len(hist[r].attempts)]
            /\ ai_result[r].is_payment_screenshot = FALSE
            /\ ai_result[r].confidence = 0
            /\ Done(r) => /\ response[r].error_code = "ai_failed"
                          /\ response[r].metadata.review_reason = "ai_uncertain"

C14_Witness ==
    \E r \in Requests :
        /\ Done(r) /\ AllCandidatesFailed(r)
        /\ Len(hist[r].attempts) = Len(fallbacks)
        /\ hist[r].raised = "could not convert: gemini-1.5-pro"
        /\ response[r].error_code = "ai_failed"

\* The fixed table of error codes and their review reasons.
ReviewReasonTable ==
    [ ai_failed |-> "ai_uncertain",
      invalid_image |-> "validation_failed",
      payment_date_invalid |-> "date_mismatch",
      not_payment_screenshot |-> "not_payment_screenshot",
      validation_failed |-> "validation_failed",
      service_error |-> "service_error",
      service_disabled |-> "service_disabled",
      daily_limit_exceeded |-> "service_disabled",
      model_not_free |-> "service_disabled" ]

\* C15: the review_reason of every error envelope is the table's entry for its
\* error_code, for the envelopes the requests return and for _error_response on
\* each code of the table.
C15_ReasonFollowsTable ==
    /\ \A r \in Requests :
          (Done(r) /\ ~response[r].success) =>
              /\ response[r].error_code \in DOMAIN ReviewReasonTable
              /\ response[r].metadata.review_reason = ReviewReasonTable[response[r].error_code]
    /\ \A code \in DOMAIN ReviewReasonTable :
          _error_response(code, "", "google_ai_studio", DEFAULT_MODEL, "free",
                          "").metadata.review_reason = ReviewReasonTable[code]

C15_Witness ==
    \E r \in Requests :
        /\ Done(r) /\ ~response[r].success
        /\ response[r].error_code = "daily_limit_exceeded"
        /\ response[r].metadata.review_reason = "service_disabled"

\* The SHA-256 digest of the bytes request r's image decodes to.
DigestOfImage(r) ==
    sha256_hexdigest(b64decode(image_base64[r][Len(image_base64[r])]).bytes)

\* C17: every error envelope, one of a request blocked before its image was
\* validated included, carries the SHA-256 of the request's decoded image bytes.
C17_ErrorCarriesImageHash ==
    \A r \in Requests :
        (Done(r) /\ ~response[r].success) =>
            response[r].metadata.image_hash = DigestOfImage(r)

C17_Witness ==
    \E r \in Requests :
        /\ Done(r)
        /\ response[r].error_code \in {"service_disabled", "daily_limit_exceeded"}
        /\ image_base64[r] = <<"data:image/png;base64", "B64_PNG">>
        /\ response[r].metadata.image_hash = "sha256:png_800x1200"

\* C19: the amount of the payment record in every returned envelope is
\* non-negative.
C19_AmountNonNegative ==
    \A r \in Requests : Done(r) => response[r].data.amount >= 0

C18_HashIgnoresPrefix ==
    direct.fn = "generate_image_hash" =>
        LET first == direct.args[1]
            second == direct.args[2]
        IN  (\/ second = first
             \/ /\ Len(first) = 1 /\ Len(second) = 2
                /\ second[1] \in DataUrlPrefixes /\ second[2] = first[1])
            => direct.result[1] = direct.result[2]

C18_Witness ==
    /\ direct.fn = "generate_image_hash"
    /\ direct.args = << <<"B64_PNG">>, <<"data:image/jpeg;base64", "B64_PNG">> >>
    /\ ~direct.result[1].raised
    /\ direct.result[2].hash = "sha256:png_800x1200"

\* C20: count_today() equals the number of increments made since the calendar
\* date last changed: N after N increments, 0 after a date change, and the
\* first increment after a date change returns 1.
C20_CountFollowsIncrements ==
    /\ CountToday = direct.increments
    /\ direct.fn \in {"increment_request_count", "get_request_count"} =>
          direct.result[1] = direct.increments \/ direct.args[2] # today

C20_Witness ==
    /\ direct.fn = "increment_request_count"
    /\ direct.args = << [date |-> 1, count |-> MaxIncrements], 2 >>
    /\ direct.result = <<1>>
    /\ today = 2

\* The stored count is the number of increments made on the current date.
C21_CountIsIncrementsToday ==
    /\ _request_counter.date <= today
    /\ _request_counter.date = today => _request_counter.count = direct.increments
    /\ _request_counter.date # today => direct.increments = 0

\* A step that changes the stored counter either adds one on the stored date,
\* or is the reset of a counter whose date is not the current one.
C21_CounterStep ==
    _request_counter' # _request_counter =>
        \/ /\ _request_counter.date = today'
           /\ _request_counter' = [_request_counter EXCEPT !.count = @ + 1]
        \/ /\ _request_counter.date # today'
           /\ _request_counter'.date = today'
           /\ _request_counter'.count \in {0, 1}

\* C21: with the requests and the status handler calling increment and
\* count_today concurrently, no increment is lost and a date change resets the
\* count once; an increment made on the new date is not erased by a later
\* caller's reset check.
C21_NoLostIncrement ==
    [] C21_CountIsIncrementsToday /\ [][C21_CounterStep]_vars

C21_Witness ==
    \E q \in Requests :
        /\ today = 2
        /\ _request_counter = [date |-> 2, count |-> 1]
        /\ pc[q] = "validate"
        /\ hist[q].observed = 1

\* The attempts of request r so far are the first whitelisted candidates of its
\* list, in the order of the list.
AttemptsInListOrder(r) ==
    LET w == WhitelistedCandidates(loop[r].models, 1)
    IN  /\ Len(hist[r].attempts) <= Len(w)
        /\ \A i \in 1..Len(hist[r].attempts) : hist[r].attempts[i] = w[i]

\* Whether the candidate attempted last got a text back from its generation
\* call (and failed afterwards, in _parse_ai_response).
text_came_last(h) ==
    /\ h.attempts # <<>>
    /\ h.raised = "could not convert: " \o h.attempts[Len(h.attempts)]

\* The attempts are in list order, and when parse_payment_image has returned an
\* answer the adapter's active model is the candidate that gave it.
C22_InOrderAndActive ==
    \A r \in Requests :
        /\ AttemptsInListOrder(r)
        /\ (pc[r] = "answer" /\ hist[r].answered # NoneVal) =>
               provider_model_id = hist[r].answered

\* No candidate is attempted once the generation call of a candidate returned.
C22_NoAttemptAfterText ==
    \A r \in Requests :
        Len(hist'[r].attempts) > Len(hist[r].attempts) => ~text_came_last(hist[r])

\* C22: candidates are attempted in list order, the loop stops at the first
\* candidate whose generation call succeeds and attempts no later one, and the
\* adapter's active model is then the candidate that answered.
C22_StopsAtFirstSuccess ==
    [] C22_InOrderAndActive /\ [][C22_NoAttemptAfterText]_vars

\* The requested model followed by the fallbacks other than it.
ExpectedCandidates(requested) ==
    LET Other(x) == x # requested
    IN  <<requested>> \o SelectSeq(fallbacks, Other)

\* C23: within a request each model id is attempted at most once; the candidate
\* list is the requested model followed by the fallback list without duplicates.
C23_EachModelOnce ==
    \A r \in Requests :
        /\ \A i, j \in 1..Len(hist[r].attempts) :
              hist[r].attempts[i] = hist[r].attempts[j] => i = j
        /\ loop[r].models # <<>> =>
              loop[r].models = ExpectedCandidates(hist[r].requested)

C23_Witness ==
    \E r \in Requests :
        /\ Done(r)
        /\ hist[r].requested = "gemini-2.0-flash"
        /\ hist[r].answered = NoneVal
        /\ Len(hist[r].attempts) = Len(fallbacks)
        /\ hist[r].attempts[1] = "gemini-2.0-flash"
        /\ hist[r].attempts[3] = "gemini-2.0-flash-exp"

\* C25: the adapter's active model id is in the free whitelist in every state,
\* after construction and after any parse_payment_image calls.
C25_ActiveModelIsFree ==
    provider_model_id # NoneVal => provider_model_id \in ALLOWED_FREE_MODELS

C25_Witness ==
    \E r \in Requests :
        /\ pc[r] = "answer"
        /\ hist[r].requested = DEFAULT_MODEL
        /\ hist[r].answered = "gemini-1.5-pro"
        /\ provider_model_id = "gemini-1.5-pro"

\* C26: a finished request leaves the adapter's active model as it found it.
C26_ActiveModelRestored ==
    \A r \in Requests :
        (Done(r) /\ provider_model_id # NoneVal) =>
            provider_model_id = hist[r].requested

\* C24: _parse_ai_response never raises on a text that is valid JSON; it returns
\* a result, and the result is a failure only for a text that is not JSON.
C24_NormalizationNeverRaises ==
    direct.fn = "_parse_ai_response" =>
        /\ ~direct.result[1].raised
        /\ "error" \in DOMAIN direct.result[1].result
              <=> direct.args[1].json = "invalid"

\* C27: while a request is in its provider call, a request that is waiting to
\* start can start.
C27_ProviderCallDoesNotBlock ==
    \A r, q \in Requests :
        (pc[r] = "loop" /\ pc[q] = "queued") => ENABLED Begin(q)

\* C28: every request that arrived eventually returns an envelope.
C28_EveryRequestFinishes ==
    \A r \in Requests : (pc[r] = "queued") ~> Done(r)

\* Position of the first occurrence of step x in steps, 0 if there is none.
RECURSIVE StepIndex(_, _, _)
StepIndex(steps, x, i) ==
    IF i > Len(steps) THEN 0
    ELSE IF steps[i] = x THEN i
    ELSE StepIndex(steps, x, i + 1)

C30_GuardrailIsPure ==
    [][(\E model_id \in ModelIds : GateEval(model_id))
          => _request_counter' = _request_counter]_vars

\* The request's image is one ImageValidator.validate rejects.
ImageFailsValidation(r) ==
    /\ image_base64[r] # <<>>
    /\ ~ImageValidator_validate(image_base64[r]).valid

\* Nothing but the image stands between the request and the provider: a
\* provider is configured and the guardrail does not block (it did not when it
\* was evaluated, or would not if it were evaluated now).
OnlyTheImageIsWrong(r) ==
    /\ hist[r].requested \notin {NoneVal, ""}
    /\ ~InSeq("guardrail_blocked", hist[r].steps)
    /\ hist[r].steps = <<>> =>
          ~should_block_request(hist[r].requested, AI_SERVICE_ENABLED,
                                _request_counter, today).block

\* C31: a request whose image fails ImageValidator.validate, undecodable base64
\* included, ends with an envelope of error_code invalid_image and
\* review_reason validation_failed.
C31_InvalidImageEnvelope ==
    \A r \in Requests :
        (pc[r] \in {"done", "fault"} /\ ImageFailsValidation(r) /\ OnlyTheImageIsWrong(r))
            => /\ Done(r)
               /\ response[r].error_code = "invalid_image"
               /\ response[r].metadata.review_reason = "validation_failed"

\* The verdict the stated order of checks gives for decoded bytes with facts f:
\* byte size, then whether the bytes open as an image, then format, then too
\* small, then too large.
VerdictInOrder(f) ==
    IF f.len > 10 * 1024 * 1024 THEN "Image too large (MB)"
    ELSE IF ~f.opens THEN "Cannot open image"
    ELSE IF f.format \notin {"JPEG", "PNG", "GIF", "WEBP"} THEN "Unsupported format"
    ELSE IF f.width <= 99 \/ f.height <= 99 THEN "Image too small"
    ELSE IF f.width >= 4097 \/ f.height >= 4097 THEN "Image too large"
    ELSE NoneVal

\* C32: ImageValidator.validate applies its checks in the order byte size,
\* decodability, format, too small, too large; more than 10 MiB is rejected
\* whether or not the bytes are an image, widths and heights of 100 and 4096
\* pass while 99 and 4097 do not, and an unusual aspect ratio is only logged.
C32_ValidationOrder ==
    direct.fn = "ImageValidator.validate" =>
        LET d == b64decode(strip_data_url(direct.args[1]))
            f == ImageFacts(d.bytes)
            v == direct.result[1]
        IN  ~d.raised =>
               /\ v.error = VerdictInOrder(f)
               /\ v.valid <=> VerdictInOrder(f) = NoneVal
               /\ v.warned => v.valid
               /\ d.bytes \in {"png_100x100", "png_4096x4096_10MiB"} => v.valid
               /\ d.bytes \in {"png_99x100", "png_100x99", "png_4097x100",
                               "png_100x4097"} => ~v.valid

C32_Witness ==
    /\ direct.fn = "ImageValidator.validate"
    /\ direct.args = << <<b64encode("noise_11MiB")>> >>
    /\ direct.result[1].error = "Image too large (MB)"

\* The status the table of the claim gives a text, read without regard to case
\* and surrounding white space.
StatusByTable(text) ==
    IF text = NoneVal \/ text = "" THEN "unknown"
    ELSE CASE lower_strip(text) \in {"completed", "success", "successful", "done"}
                 -> "completed"
           [] lower_strip(text) \in {"failed", "failure", "rejected"} -> "failed"
           [] lower_strip(text) \in {"pending", "processing", "in progress"} -> "pending"
           [] OTHER -> "unknown"

MethodByTable(text) ==
    IF text = NoneVal \/ text = "" THEN "unknown"
    ELSE CASE upper_strip(text) \in {"UPI", "BHIM", "GPAY", "PHONEPE", "PAYTM"} -> "UPI"
           [] upper_strip(text) = "NEFT" -> "NEFT"
           [] upper_strip(text) = "IMPS" -> "IMPS"
           [] OTHER -> "unknown"

\* C33: _normalize_status and _normalize_payment_method return a member of
\* their enumeration for every text: the status and the method the tables give,
\* and unknown for everything else, the empty and the missing text included.
C33_NormalizationIsTotal ==
    /\ direct.fn = "_normalize_status" =>
          /\ direct.result[1] \in {"completed", "failed", "pending", "unknown"}
          /\ direct.result[1] = StatusByTable(direct.args[1])
          /\ direct.args[1] \in {"SUCCESS", "done", "Completed", "successful"}
                => direct.result[1] = "completed"
          /\ direct.args[1] \in {"in progress", "In Progress", "processing"}
                => direct.result[1] = "pending"
          /\ direct.args[1] \in {"successfully", "in_progress", "Paid", "", NoneVal}
                => direct.result[1] = "unknown"
    /\ direct.fn = "_normalize_payment_method" =>
          /\ direct.result[1] \in {"UPI", "NEFT", "IMPS", "unknown"}
          /\ direct.result[1] = MethodByTable(direct.args[1])
          /\ direct.args[1] \in {"UPI", "BHIM", "GPAY", "PHONEPE", "PAYTM"}
                => direct.result[1] = "UPI"
          /\ direct.args[1] \in {"RTGS", "CARD", "UPI ID", "Google Pay", "", NoneVal}
                => direct.result[1] = "unknown"

C33_Witness ==
    /\ direct.fn = "_normalize_status"
    /\ direct.args = <<"In Progress">>
    /\ direct.result = <<"pending">>

\* parse_payment_image returned the dict _parse_ai_response builds for a text
\* that is no JSON (lines 252-260).
InvalidJsonAnswer(r) ==
    /\ "error" \in DOMAIN ai_result[r]
    /\ ai_result[r].error = "JSON parse error"

\* With a text that is no JSON the loop has ended at the candidate that gave
\* it, and the request ends with ai_failed.
C34_InvalidJsonEndsLoop ==
    \A r \in Requests :
        InvalidJsonAnswer(r) =>
            /\ pc[r] \in {"answer", "done"}
            /\ hist[r].attempts # <<>>
            /\ hist[r].answered = hist[r].attempts[Len(hist[r].attempts)]
            /\ Done(r) => (~response[r].success /\ response[r].error_code = "ai_failed")

\* After the text that is no JSON no candidate is attempted; after a text whose
\* fields could not be converted the loop goes to the candidate next in the
\* list, or reports that all failed when none is left.
C34_LoopStep ==
    \A r \in Requests :
        /\ InvalidJsonAnswer(r) => Len(hist'[r].attempts) <= Len(hist[r].attempts)
        /\ (pc[r] = "loop" /\ text_came_last(hist[r])
              /\ (pc'[r] # pc[r] \/ loop'[r] # loop[r])) =>
                 LET k == next_candidate(loop[r].models, loop[r].i)
                 IN  IF k <= Len(loop[r].models)
                     THEN hist'[r].attempts = Append(hist[r].attempts, loop[r].models[k])
                     ELSE /\ hist'[r].attempts = hist[r].attempts
                          /\ ai_result'[r] = all_models_failed(loop[r].last_error)

\* C34: a text that is no valid JSON ends the fallback loop at its candidate
\* and the request with error_code ai_failed; an exception raised while the
\* fields of a valid JSON text are converted counts as a failure of that
\* candidate, and the next candidate is attempted.
C34_JsonErrorVersusCoercion ==
    [] C34_InvalidJsonEndsLoop /\ [][C34_LoopStep]_vars

\* A first candidate whose fields could not be converted, a second whose text
\* was no JSON, and the request ended.
C34_Witness ==
    \E r \in Requests :
        /\ Done(r)
        /\ InvalidJsonAnswer(r)
        /\ Len(hist[r].attempts) = 2
        /\ hist[r].raised = "could not convert: " \o hist[r].attempts[1]
        /\ response[r].error_code = "ai_failed"

\* The request is past line 130: at the log line, in the provider call, or
\* ended with an envelope that only steps 6-12 or the except handler build.
PastIncrement(r) ==
    \/ pc[r] \in {"log", "provider", "loop", "answer"}
    \/ /\ Done(r)
       /\ \/ response[r].success
          \/ response[r].error_code \in {"ai_failed", "not_payment_screenshot",
                                        "service_error"}
    \/ pc[r] = "fault" /\ hist[r].attempts # <<>>

\* A request past line 130 has taken one unit, whatever it attempted and
\* however it ended; any other request has taken none.
C35_UnitsTaken ==
    \A r \in Requests :
        hist[r].increments = IF PastIncrement(r) THEN 1 ELSE 0

\* On one calendar date the count goes up by one exactly when a request passes
\* line 130 and otherwise stays; on a new date it is 0.
C35_CountStep ==
    IF today' = today
    THEN /\ CountToday' \in {CountToday, CountToday + 1}
         /\ CountToday' = CountToday + 1 <=>
               \E r \in Requests : pc[r] = "increment" /\ pc'[r] = "log"
    ELSE CountToday' = 0

\* C35: a request that passed the guardrail and the image validation takes
\* exactly one unit of the daily quota, however many candidates are attempted
\* and whatever the outcome; the unit is not given back, and the count of a date
\* is the number of requests that went on to the provider call on that date.
C35_OneUnitPerRequest ==
    [] C35_UnitsTaken /\ [][C35_CountStep]_vars

\* All six candidates failed, the request ended with ai_failed, and the count
\* of the date is 1.
C35_Witness ==
    \E r \in Requests :
        /\ Done(r)
        /\ response[r].error_code = "ai_failed"
        /\ Len(hist[r].attempts) = Len(fallbacks)
        /\ hist[r].increments = 1
        /\ CountToday = 1

\* The provider reported a payment screenshot with the given confidence.
ReportsPayment(r) ==
    /\ "error" \notin DOMAIN ai_result[r]
    /\ "is_payment_screenshot" \in DOMAIN ai_result[r]
    /\ ai_result[r].is_payment_screenshot

\* C36: the confidence of every returned envelope is between 0 and 1 (0 and 10
\* tenths); a payment screenshot reported with a confidence outside this range
\* ends with success = false and error_code service_error.
C36_ConfidenceInUnitInterval ==
    \A r \in Requests :
        /\ Done(r) =>
              (0 <= response[r].metadata.confidence /\ response[r].metadata.confidence <= 10)
        /\ (pc[r] \in {"done", "fault"} /\ ReportsPayment(r)
              /\ (ai_result[r].confidence < 0 \/ ai_result[r].confidence > 10)) =>
                 /\ Done(r)
                 /\ ~response[r].success
                 /\ response[r].error_code = "service_error"
                 /\ response[r].metadata.confidence = 0

C36_Witness ==
    \E r \in Requests :
        /\ Done(r)
        /\ ReportsPayment(r)
        /\ ai_result[r].confidence = 15
        /\ response[r].error_code = "service_error"

\* The date the provider extracted is a date before the request's match date.
ExtractedDateEarlier(r) ==
    /\ match_date[r] # NoneVal /\ match_date[r] # ""
    /\ parse_date(Get(ai_result[r], "date", "")).parsed
    /\ parse_date(match_date[r]).parsed
    /\ parse_date(Get(ai_result[r], "date", "")).day < parse_date(match_date[r]).day

EndedAtTheLimit(r) ==
    /\ pc[r] \in {"done", "fault"}
    /\ hist[r].increments = 0
    /\ _request_counter.date = today
    /\ _request_counter.count >= DAILY_REQUEST_LIMIT

\* A request that ran with the count of its date at the limit ended with
\* daily_limit_exceeded and made no provider call.
C38_RefusedAtTheLimit ==
    \A r \in Requests :
        EndedAtTheLimit(r) =>
            /\ Done(r)
            /\ response[r].error_code = "daily_limit_exceeded"
            /\ hist[r].attempts = <<>>
            /\ ~InSeq("provider", hist[r].steps)

\* The guardrail evaluated for the first time after the date changed finds the
\* count reset to 0 and lets the request through.
C38_AllowedOnNewDate ==
    \A r \in Requests :
        (pc[r] = "guard" /\ pc'[r] # "guard" /\ AI_SERVICE_ENABLED
            /\ _request_counter.date # today) =>
               /\ pc'[r] = "validate"
               /\ hist'[r].observed = 0
               /\ _request_counter' = [date |-> today, count |-> 0]

\* C38: once the count has reached the limit every later request of that
\* calendar date ends with daily_limit_exceeded and without a provider call;
\* the first request after the date changed is evaluated against a count reset
\* to 0 and is allowed.
C38_LimitHoldsUntilNewDate ==
    [] C38_RefusedAtTheLimit /\ [][C38_AllowedOnNewDate]_vars

=============================================================================
